---- MODULE Spec2Model ----
(***************************************************************************)
(* Teleoperation transports of robotic_teleop: the TeleopInterface base    *)
(* class and its three bindings, SocketTeleopInterface (TCP/UDP client),   *)
(* SocketTeleopServer (TCP/UDP single-peer server) and                     *)
(* SerialTeleopInterface.  One instance is constructed and then driven by  *)
(* an arbitrary sequence of calls of its public methods; the operating     *)
(* system is the environment, whose answers to each socket or serial call  *)
(* are drawn with \E, and the peer at the other end of the transport       *)
(* writes the bytes the instance reads.                                    *)
(***************************************************************************)
EXTENDS Integers, Sequences, FiniteSets, TLC

VARIABLES
    binding,        \* class of the instance under test
    protocol,       \* self.protocol (TCP or UDP; empty on serial)
    is_connected,   \* TeleopInterface.is_connected
    socket,         \* SocketTeleopInterface.socket
    server_socket,  \* SocketTeleopServer.server_socket
    client_socket,  \* SocketTeleopServer.client_socket
    client_address, \* SocketTeleopServer.client_address
    serial_port,    \* SerialTeleopInterface.serial_port
    orphans,        \* open OS handles the instance no longer references
    call,           \* the last public call: what it did and returned
    prev,           \* the call before it, when that was a disconnect
    net             \* the transport: what the peer has written and done

vars == <<binding, protocol, is_connected, socket, server_socket,
          client_socket, client_address, serial_port, orphans, call, prev, net>>

------------------------------------------------------------------------------
(* Bounds *)

\* open handles that may stay unreferenced before the runtime finalizes them
MaxOrphans == 1

\* largest read timeout (seconds) a caller passes to receive_data / receive_raw_bytes
MaxTimeout == 2

\* sizes a caller passes to receive_raw_bytes
MaxRawSize == 2

\* writes of the peer the transport holds before the instance reads them
MaxInFlight == 2

------------------------------------------------------------------------------
(* Python values *)

None == "None"

\* protocol names are strings of characters
TCP == <<"T", "C", "P">>
UDP == <<"U", "D", "P">>

\* no self.protocol: the serial binding, or no instance yet
NoProtocol == <<>>

Bindings == {"SocketTeleopInterface", "SocketTeleopServer", "SerialTeleopInterface"}

\* peers a server can hear from
Addrs == {"addrA", "addrB"}

\* JSON-representable values and one value json.dumps rejects (e.g. a set)
JInt(n) == [t |-> "int", v |-> n]
PyObject == [t |-> "object", v |-> 0]
JsonValues == {JInt(1)}
Keys == {"k"}

\* command mappings with JSON-representable values
Commands == UNION {[K -> JsonValues] : K \in SUBSET Keys}

\* what a caller may hand to send_command
CommandInputs == Commands \cup {[k \in Keys |-> PyObject]}

------------------------------------------------------------------------------
(* Exceptions: the class raised and the except clauses that catch it *)

NoExc == "none"

\* Superclasses(e): the classes an `except` clause may name to catch e
Superclasses(e) ==
    CASE e = "socket.timeout"      -> {"socket.timeout", "OSError", "Exception"}
      [] e = "OSError"             -> {"OSError", "Exception"}
      [] e = "SerialException"     -> {"SerialException", "OSError", "Exception"}
      [] e = "JSONDecodeError"     -> {"JSONDecodeError", "ValueError", "Exception"}
      [] e = "UnicodeDecodeError"  -> {"UnicodeDecodeError", "ValueError", "Exception"}
      [] e = "TypeError"           -> {"TypeError", "Exception"}
      [] e = "AttributeError"      -> {"AttributeError", "Exception"}
      [] e = "NameError"           -> {"NameError", "Exception"}
      [] e = "ImportError"         -> {"ImportError", "Exception"}
      [] OTHER                     -> {}

\* an exception is caught when one of the clauses names one of its classes
Catches(clauses, e) ==
    e # NoExc /\ \E i \in 1..Len(clauses) : clauses[i] \in Superclasses(e)

------------------------------------------------------------------------------
(* Bytes on the wire, and the json module *)

\* whitespace bytes: str.strip() removes them at the ends, JSON skips them
Whitespace == {"LF", "SP"}
Digits == {"0", "1"}

\* a byte that is not valid UTF-8
BadByte == "xFF"

DigitOf(n) == IF n = 0 THEN "0" ELSE "1"
IntOf(d) == IF d = "0" THEN 0 ELSE 1

\* json.dumps(command).encode('utf-8'): the bytes, or the exception raised
json_dumps(command) ==
    IF \E k \in DOMAIN command : command[k] \notin JsonValues
    THEN [exc |-> "TypeError", data |-> <<>>]
    ELSE IF DOMAIN command = {}
    THEN [exc |-> NoExc, data |-> <<"{", "}">>]
    ELSE [exc |-> NoExc,
          data |-> <<"{", "k", ":", "SP", DigitOf(command["k"].v), "}">>]

RECURSIVE lstrip(_)
lstrip(s) == IF s # <<>> /\ Head(s) \in Whitespace THEN lstrip(Tail(s)) ELSE s

RECURSIVE rstrip(_)
rstrip(s) ==
    IF s # <<>> /\ s[Len(s)] \in Whitespace THEN rstrip(SubSeq(s, 1, Len(s) - 1)) ELSE s

\* str.strip()
strip(s) == rstrip(lstrip(s))

\* json.loads(data.decode('utf-8')): the document, or the exception raised
json_loads(data) ==
    LET t == SelectSeq(data, LAMBDA b : b \notin Whitespace)
    IN  IF \E i \in 1..Len(data) : data[i] = BadByte
        THEN [exc |-> "UnicodeDecodeError", value |-> <<>>]
        ELSE IF t = <<"{", "}">>
        THEN [exc |-> NoExc, value |-> <<>>]
        ELSE IF /\ Len(t) = 5
                /\ t[1] = "{" /\ t[2] = "k" /\ t[3] = ":"
                /\ t[4] \in Digits /\ t[5] = "}"
        THEN [exc |-> NoExc, value |-> [k \in Keys |-> JInt(IntOf(t[4]))]]
        ELSE [exc |-> "JSONDecodeError", value |-> <<>>]

CallTimeouts == 1..MaxTimeout

------------------------------------------------------------------------------
(* The transport *)

\* net.rx holds the writes of the peer the instance has not read, oldest
\* first. One write: its bytes, the command they encode (<<m>>; <<>> for
\* bytes no send_command wrote and for what is left of a write partly read)
\* and the address they came from
Chunk(data, msg, addr) == [data |-> data, msg |-> msg, addr |-> addr]

\* the bytes of rx as one stream
RECURSIVE Flatten(_)
Flatten(rx) == IF rx = <<>> THEN <<>> ELSE Head(rx).data \o Flatten(Tail(rx))

\* rx after its first n bytes were read
RECURSIVE Drop(_, _)
Drop(rx, n) ==
    IF rx = <<>> \/ n = 0 THEN rx
    ELSE IF Len(Head(rx).data) <= n THEN Drop(Tail(rx), n - Len(Head(rx).data))
    ELSE <<Chunk(SubSeq(Head(rx).data, n + 1, Len(Head(rx).data)), <<>>,
                 Head(rx).addr)>> \o Tail(rx)

\* the first n bytes of rx, and what stays
Take(rx, n) == [data |-> SubSeq(Flatten(rx), 1, n), rest |-> Drop(rx, n)]

\* socket.recv(buffer_size) on a stream with bytes to read: the bytes of the
\* oldest write, or everything that has arrived (writes run together)
recv(rx, all) ==
    Take(rx, IF all THEN Len(Flatten(rx)) ELSE Len(Head(rx).data))

\* recvfrom that reports one and the same address for every datagram
recvfrom_OneSource(rx) == [data |-> Head(rx).data, addr |-> "addrA", rest |-> Tail(rx)]

\* socket.recvfrom(buffer_size) with a datagram queued: one datagram and
\* the address of its sender
recvfrom(rx) == [data |-> Head(rx).data, addr |-> Head(rx).addr, rest |-> Tail(rx)]

\* a socket whose timeout was never set blocks in recv / recvfrom / accept
NoTimeout == <<>>

\* receive_data that does not set the timeout
settimeout_Skipped(timeout) == NoTimeout

\* socket.settimeout(timeout): the timeout of the socket afterwards
settimeout(timeout) == <<timeout>>

\* bytes of the peer that are no document: a truncated document, bytes that
\* are not UTF-8
Documents == {json_dumps(m).data : m \in Commands}
Garbage == {<<"{", "k", ":">>, <<BadByte>>}

------------------------------------------------------------------------------
(* The record of a public call *)

NoVal == <<>>

\* the previous call was no disconnect
NoPrev == [op |-> "other", ret |-> "None", calls |-> {}]

\* a call that has not returned: the calling thread is blocked in it
Blocked == call.ret = "Blocked"

\* an instance of class cls exists and no call on it is in progress
Ready(cls) == binding = cls /\ ~Blocked

\* op: the method; pre: is_connected on entry; ret: "True"/"False"/"None"/
\* "Value" (val holds it)/"NoReturn" (an exception escaped, named by raised);
\* calls: the methods of the underlying socket/serial object the call invoked;
\* io: how the transfer on the transport ended ("none": not attempted, "ok",
\* "eof": zero-length read, "timeout", "error"; for connect and
\* list_available_ports: whether the acquisition / enumeration went through);
\* data: the bytes transferred; addr: the address sendto was given or
\* recvfrom / accept reported; size: the number of bytes asked of read()
Record(op, ret, val, raised, calls, io, data, addr, size) ==
    /\ call' = [op |-> op, pre |-> is_connected, ret |-> ret, val |-> val,
                raised |-> raised, calls |-> calls, io |-> io, data |-> data,
                addr |-> addr, size |-> size]
    /\ prev' = IF call.op = "disconnect"
               THEN [op |-> call.op, ret |-> call.ret, calls |-> call.calls]
               ELSE NoPrev

Return(op, ret, val, raised, calls, io, data) ==
    Record(op, ret, val, raised, calls, io, data, None, 0)

ReturnAddr(op, ret, val, raised, calls, io, data, addr) ==
    Record(op, ret, val, raised, calls, io, data, addr, 0)

ReturnSize(op, ret, val, raised, calls, io, data, size) ==
    Record(op, ret, val, raised, calls, io, data, None, size)

\* what the caller sees of a try block that ended with exception exc (or
\* NoExc): the normal return value, the sentinel of the except clauses, or
\* the exception itself
RetOf(exc, clauses, normal, sentinel) ==
    IF exc = NoExc THEN normal ELSE IF Catches(clauses, exc) THEN sentinel ELSE "NoReturn"

RaisedOf(exc, clauses) ==
    IF exc # NoExc /\ ~Catches(clauses, exc) THEN exc ELSE NoExc

\* open handles left unreferenced: n more, until the runtime finalizes some
Orphaned(n) == IF orphans + n > MaxOrphans THEN MaxOrphans ELSE orphans + n

------------------------------------------------------------------------------
(* TeleopInterface *)

\* TeleopInterface.check_connection: the value returned
check_connection == is_connected

------------------------------------------------------------------------------
(* SocketTeleopInterface *)

\* the except clauses of each method, in order
SocketTeleopInterface_connect_except == <<"Exception">>
SocketTeleopInterface_disconnect_except == <<"Exception">>
SocketTeleopInterface_send_except == <<"Exception">>
\* receive_data with the timeout clause alone
SocketTeleopInterface_receive_except_TimeoutOnly == <<"socket.timeout">>
SocketTeleopInterface_receive_except == <<"socket.timeout", "Exception">>

\* send_command guarded by the socket alone
SocketTeleopInterface_send_refused_SocketOnly == socket = None

\* `if not self.is_connected or not self.socket` of send_command
SocketTeleopInterface_send_refused == ~is_connected \/ socket = None

\* `if not self.is_connected or not self.socket` of receive_data
SocketTeleopInterface_receive_refused == ~is_connected \/ socket = None

\* connect(): created/connected are the outcomes of socket.socket() and of
\* socket.connect(); finalized: the runtime closes the socket object whose
\* last reference the assignment to self.socket drops. Nothing has arrived
\* at a new socket
SocketTeleopInterface_connect ==
    /\ Ready("SocketTeleopInterface")
    /\ \E created \in BOOLEAN, connected \in BOOLEAN, finalized \in BOOLEAN :
         \* without a new socket nothing is connected or dropped
         /\ created \/ (connected /\ finalized)
         /\ LET exc == IF ~created THEN "OSError"
                       ELSE IF protocol = TCP /\ ~connected THEN "OSError"
                       ELSE NoExc
                clauses == SocketTeleopInterface_connect_except
                dropped == IF created /\ socket # None /\ ~finalized THEN 1 ELSE 0
            IN  /\ socket' = IF created THEN "sock" ELSE socket
                /\ net' = IF created THEN [net EXCEPT !.rx = <<>>] ELSE net
                /\ orphans' = Orphaned(dropped)
                /\ is_connected' = IF exc = NoExc THEN TRUE
                                   ELSE IF Catches(clauses, exc) THEN FALSE
                                   ELSE is_connected
                /\ Return("connect", RetOf(exc, clauses, "True", "False"), NoVal,
                          RaisedOf(exc, clauses),
                          IF created /\ protocol = TCP THEN {"connect"} ELSE {},
                          IF exc = NoExc THEN "ok" ELSE "error", <<>>)
    /\ UNCHANGED <<binding, protocol, server_socket, client_socket,
                   client_address, serial_port>>

\* disconnect() that closes the socket and keeps the reference to it
SocketTeleopInterface_disconnect_KeepsSocket ==
    /\ Ready("SocketTeleopInterface")
    /\ \E closed \in BOOLEAN :
         LET exc == IF socket # None /\ ~closed THEN "OSError" ELSE NoExc
             clauses == SocketTeleopInterface_disconnect_except
         IN  /\ socket' = socket
             /\ is_connected' = IF exc = NoExc THEN FALSE ELSE is_connected
             /\ Return("disconnect", RetOf(exc, clauses, "True", "False"), NoVal,
                       RaisedOf(exc, clauses),
                       IF socket # None THEN {"close"} ELSE {}, "none", <<>>)
    /\ UNCHANGED <<net, binding, protocol, server_socket, client_socket,
                   client_address, serial_port, orphans>>

\* disconnect(): closed is the outcome of socket.close(); what was not read
\* goes with the socket
SocketTeleopInterface_disconnect ==
    /\ Ready("SocketTeleopInterface")
    /\ \E closed \in BOOLEAN :
         LET exc == IF socket # None /\ ~closed THEN "OSError" ELSE NoExc
             clauses == SocketTeleopInterface_disconnect_except
         IN  /\ socket' = IF exc = NoExc THEN None ELSE socket
             /\ net' = IF exc = NoExc THEN [net EXCEPT !.rx = <<>>] ELSE net
             /\ is_connected' = IF exc = NoExc THEN FALSE ELSE is_connected
             /\ Return("disconnect", RetOf(exc, clauses, "True", "False"), NoVal,
                       RaisedOf(exc, clauses),
                       IF socket # None THEN {"close"} ELSE {}, "none", <<>>)
    /\ UNCHANGED <<binding, protocol, server_socket, client_socket,
                   client_address, serial_port, orphans>>

\* send_command(command): sent is the outcome of sendall / sendto
SocketTeleopInterface_send_command ==
    /\ Ready("SocketTeleopInterface")
    /\ IF SocketTeleopInterface_send_refused
       THEN Return("send_command", "False", NoVal, NoExc, {}, "none", <<>>)
       ELSE \E command \in CommandInputs, sent \in BOOLEAN :
            LET enc == json_dumps(command)
                exc == IF enc.exc # NoExc THEN enc.exc
                       ELSE IF ~sent THEN "OSError" ELSE NoExc
                clauses == SocketTeleopInterface_send_except
            IN  Return("send_command", RetOf(exc, clauses, "True", "False"),
                       NoVal, RaisedOf(exc, clauses),
                       IF enc.exc # NoExc THEN {}
                       ELSE IF protocol = TCP THEN {"sendall"} ELSE {"sendto"},
                       IF enc.exc # NoExc THEN "none"
                       ELSE IF sent THEN "ok" ELSE "error",
                       IF exc = NoExc THEN enc.data ELSE <<>>)
    /\ UNCHANGED <<net, binding, protocol, is_connected, socket, server_socket,
                   client_socket, client_address, serial_port, orphans>>

\* receive_data(timeout). ev: the read goes through ("io"), fails ("error"),
\* or finds the stream closed by the peer ("closed", once all bytes are
\* read); all: recv returns everything that has arrived. With nothing to
\* read the call ends when the timeout of the socket expires
SocketTeleopInterface_receive_data ==
    /\ Ready("SocketTeleopInterface")
    /\ IF SocketTeleopInterface_receive_refused
       THEN /\ Return("receive_data", "None", NoVal, NoExc, {}, "none", <<>>)
            /\ net' = net
       ELSE \E timeout \in CallTimeouts, ev \in {"io", "closed", "error"},
               all \in BOOLEAN :
            LET tmo == settimeout(timeout)
                some == ev # "error" /\ net.rx # <<>>
                eof == ev = "closed" /\ net.rx = <<>> /\ protocol = TCP
            IN  \E r \in {IF ~some THEN [data |-> <<>>, rest |-> net.rx]
                          ELSE IF protocol = TCP THEN recv(net.rx, all)
                          ELSE recvfrom(net.rx)} :
                \E dec \in {json_loads(r.data)} :
                LET exc == IF ev = "error" THEN "OSError"
                           ELSE IF ~some /\ ~eof THEN "socket.timeout"
                           ELSE IF r.data = <<>> THEN NoExc
                           ELSE dec.exc
                    clauses == SocketTeleopInterface_receive_except
                    normal == IF r.data = <<>> THEN "None" ELSE "Value"
                    blocks == ~some /\ ~eof /\ ev # "error" /\ tmo = NoTimeout
                IN  /\ Return("receive_data",
                              IF blocks THEN "Blocked"
                              ELSE RetOf(exc, clauses, normal, "None"),
                              IF exc = NoExc /\ r.data # <<>> THEN <<dec.value>>
                              ELSE NoVal,
                              IF blocks THEN NoExc ELSE RaisedOf(exc, clauses),
                              {"settimeout", IF protocol = TCP THEN "recv" ELSE "recvfrom"},
                              IF ev = "error" THEN "error"
                              ELSE IF ~some /\ ~eof THEN "timeout"
                              ELSE IF r.data = <<>> THEN "eof" ELSE "ok",
                              r.data)
                    /\ net' = [net EXCEPT !.rx = r.rest]
    /\ UNCHANGED <<binding, protocol, is_connected, socket, server_socket,
                   client_socket, client_address, serial_port, orphans>>

------------------------------------------------------------------------------
(* SocketTeleopServer *)

\* connect catching timeouts alone
SocketTeleopServer_connect_except_TimeoutOnly == <<"socket.timeout">>
SocketTeleopServer_connect_except == <<"Exception">>
SocketTeleopServer_disconnect_except == <<"Exception">>
SocketTeleopServer_send_except == <<"Exception">>
SocketTeleopServer_receive_except == <<"socket.timeout", "Exception">>

\* `if not self.is_connected` of send_command
SocketTeleopServer_send_refused == ~is_connected

\* `if not self.is_connected` of receive_data
SocketTeleopServer_receive_refused == ~is_connected

\* a listening socket given a timeout before accept()
ServerSocketTimeout_Set == <<MaxTimeout>>

\* the timeout of the listening socket in accept(): connect() sets none
ServerSocketTimeout == NoTimeout

\* connect() up to accept(): created and bound are the outcomes of
\* socket.socket() and bind(); finalized_s: the runtime closes the socket
\* object whose last reference the assignment to server_socket drops.  The
\* address is still taken while an earlier listening socket of the instance
\* is open.  On TCP the call then waits in accept(): the listening socket has
\* no timeout
SocketTeleopServer_connect ==
    /\ Ready("SocketTeleopServer")
    /\ \E created \in BOOLEAN, bound \in BOOLEAN, finalized_s \in BOOLEAN :
         \* without a new socket nothing is bound or dropped
         /\ created \/ (bound /\ finalized_s)
         /\ LET free == server_socket = None \/ finalized_s
                exc == IF ~created THEN "OSError"
                       ELSE IF ~(bound /\ free) THEN "OSError"
                       ELSE IF protocol = TCP /\ ServerSocketTimeout # NoTimeout
                       THEN "socket.timeout"
                       ELSE NoExc
                clauses == SocketTeleopServer_connect_except
                waits == protocol = TCP /\ exc = NoExc
                dropped_s == IF created /\ server_socket # None /\ ~finalized_s
                             THEN 1 ELSE 0
            IN  /\ server_socket' = IF created THEN "sock" ELSE server_socket
                /\ orphans' = Orphaned(dropped_s)
                /\ is_connected' = IF waits THEN is_connected
                                   ELSE IF exc = NoExc THEN TRUE
                                   ELSE IF Catches(clauses, exc) THEN FALSE
                                   ELSE is_connected
                /\ net' = [net EXCEPT
                             !.rx = IF created /\ protocol = UDP THEN <<>> ELSE @,
                             !.backlog = IF created THEN None ELSE @,
                             !.heard = FALSE]
                /\ Return("connect",
                          IF waits THEN "Blocked"
                          ELSE RetOf(exc, clauses, "True", "False"),
                          NoVal, RaisedOf(exc, clauses),
                          IF ~created THEN {}
                          ELSE IF ~(bound /\ free) THEN {"bind"}
                          ELSE IF protocol = TCP THEN {"bind", "listen", "accept"}
                          ELSE {"bind"},
                          IF waits THEN "wait" ELSE IF exc = NoExc THEN "ok"
                          ELSE IF exc = "socket.timeout" THEN "timeout" ELSE "error",
                          <<>>)
    /\ UNCHANGED <<binding, protocol, socket, client_socket, client_address,
                   serial_port>>

\* connect() from accept() on: accept() returns the client waiting at the
\* listening socket, or raises; finalized_c: the runtime closes the socket
\* object whose last reference the assignment to client_socket drops
SocketTeleopServer_connect_accept ==
    /\ binding = "SocketTeleopServer" /\ Blocked /\ call.op = "connect"
    /\ \E accepted \in BOOLEAN, finalized_c \in BOOLEAN :
         LET exc == IF ~accepted THEN "OSError" ELSE NoExc
             clauses == SocketTeleopServer_connect_except
             dropped_c == IF accepted /\ client_socket # None /\ ~finalized_c
                          THEN 1 ELSE 0
         IN  /\ accepted => net.backlog # None
             /\ client_socket' = IF accepted THEN "sock" ELSE client_socket
             /\ client_address' = IF accepted THEN net.backlog ELSE client_address
             /\ orphans' = Orphaned(dropped_c)
             /\ is_connected' = IF exc = NoExc THEN TRUE
                                ELSE IF Catches(clauses, exc) THEN FALSE
                                ELSE is_connected
             /\ net' = IF accepted THEN [net EXCEPT !.rx = <<>>, !.backlog = None]
                       ELSE net
             /\ ReturnAddr("connect", RetOf(exc, clauses, "True", "False"), NoVal,
                           RaisedOf(exc, clauses), call.calls,
                           IF exc = NoExc THEN "ok" ELSE "error", <<>>,
                           IF accepted THEN net.backlog ELSE None)
    /\ UNCHANGED <<binding, protocol, socket, server_socket, serial_port>>

\* disconnect(): closed_c / closed_s are the outcomes of the two close()
\* calls; what was not read goes with the socket it arrived at
SocketTeleopServer_disconnect ==
    /\ Ready("SocketTeleopServer")
    /\ \E closed_c \in BOOLEAN, closed_s \in BOOLEAN :
         LET exc_c == client_socket # None /\ ~closed_c
             exc_s == ~exc_c /\ server_socket # None /\ ~closed_s
             exc == IF exc_c \/ exc_s THEN "OSError" ELSE NoExc
             clauses == SocketTeleopServer_disconnect_except
         IN  /\ client_socket' = IF exc_c THEN client_socket ELSE None
             /\ server_socket' = IF exc_c \/ exc_s THEN server_socket ELSE None
             /\ is_connected' = IF exc = NoExc THEN FALSE ELSE is_connected
             /\ net' = [net EXCEPT
                          !.rx = IF (protocol = TCP /\ ~exc_c) \/ exc = NoExc
                                 THEN <<>> ELSE @,
                          !.backlog = IF exc = NoExc THEN None ELSE @]
             /\ Return("disconnect", RetOf(exc, clauses, "True", "False"), NoVal,
                       RaisedOf(exc, clauses),
                       IF client_socket # None \/ server_socket # None
                       THEN {"close"} ELSE {},
                       "none", <<>>)
    /\ UNCHANGED <<binding, protocol, socket, client_address, serial_port, orphans>>

\* send_command(command): sent is the outcome of sendall / sendto
SocketTeleopServer_send_command ==
    /\ Ready("SocketTeleopServer")
    /\ IF SocketTeleopServer_send_refused
       THEN Return("send_command", "False", NoVal, NoExc, {}, "none", <<>>)
       ELSE \E command \in CommandInputs, sent \in BOOLEAN :
            LET enc == json_dumps(command)
                nopeer == IF protocol = TCP THEN client_socket = None
                          ELSE client_address = None
                nosock == protocol = UDP /\ server_socket = None
                exc == IF enc.exc # NoExc THEN enc.exc
                       ELSE IF nopeer THEN NoExc
                       ELSE IF nosock THEN "AttributeError"
                       ELSE IF ~sent THEN "OSError" ELSE NoExc
                tried == enc.exc = NoExc /\ ~nopeer /\ ~nosock
                clauses == SocketTeleopServer_send_except
            IN  ReturnAddr("send_command",
                           RetOf(exc, clauses,
                                 IF nopeer THEN "False" ELSE "True", "False"),
                           NoVal, RaisedOf(exc, clauses),
                           IF ~tried THEN {}
                           ELSE IF protocol = TCP THEN {"sendall"} ELSE {"sendto"},
                           IF ~tried THEN "none" ELSE IF sent THEN "ok" ELSE "error",
                           IF tried /\ sent THEN enc.data ELSE <<>>,
                           IF tried /\ protocol = UDP THEN client_address ELSE None)
    /\ UNCHANGED <<net, binding, protocol, is_connected, socket, server_socket,
                   client_socket, client_address, serial_port, orphans>>

\* receive_data(timeout); ev and all as for the client.  On UDP recvfrom
\* reports the source of the datagram, which becomes the peer
SocketTeleopServer_receive_data ==
    /\ Ready("SocketTeleopServer")
    /\ IF SocketTeleopServer_receive_refused
       THEN /\ Return("receive_data", "None", NoVal, NoExc, {}, "none", <<>>)
            /\ UNCHANGED <<client_address, net>>
       ELSE \E timeout \in CallTimeouts, ev \in {"io", "closed", "error"},
               all \in BOOLEAN :
            LET nopeer == protocol = TCP /\ client_socket = None
                nosock == protocol = UDP /\ server_socket = None
                tried == ~nopeer /\ ~nosock
                tmo == settimeout(timeout)
                some == tried /\ ev # "error" /\ net.rx # <<>>
                eof == tried /\ ev = "closed" /\ net.rx = <<>> /\ protocol = TCP
            IN  \E r \in {IF ~some THEN [data |-> <<>>, rest |-> net.rx, addr |-> None]
                          ELSE IF protocol = TCP
                          THEN [data |-> recv(net.rx, all).data,
                                rest |-> recv(net.rx, all).rest, addr |-> None]
                          ELSE recvfrom(net.rx)} :
                \E dec \in {json_loads(r.data)} :
                LET exc == IF nopeer THEN NoExc
                           ELSE IF nosock THEN "AttributeError"
                           ELSE IF ev = "error" THEN "OSError"
                           ELSE IF ~some /\ ~eof THEN "socket.timeout"
                           ELSE IF r.data = <<>> THEN NoExc
                           ELSE dec.exc
                    clauses == SocketTeleopServer_receive_except
                    normal == IF r.data = <<>> THEN "None" ELSE "Value"
                    blocks == tried /\ ~some /\ ~eof /\ ev # "error" /\ tmo = NoTimeout
                IN  /\ client_address' = IF some /\ protocol = UDP
                                         THEN r.addr ELSE client_address
                    /\ net' = [net EXCEPT
                                 !.rx = r.rest,
                                 !.heard = IF some /\ protocol = UDP THEN TRUE ELSE @,
                                 !.src = IF some /\ protocol = UDP THEN r.addr ELSE @]
                    /\ ReturnAddr("receive_data",
                                  IF blocks THEN "Blocked"
                                  ELSE RetOf(exc, clauses, normal, "None"),
                                  IF exc = NoExc /\ r.data # <<>> THEN <<dec.value>>
                                  ELSE NoVal,
                                  IF blocks THEN NoExc ELSE RaisedOf(exc, clauses),
                                  IF ~tried THEN {}
                                  ELSE {"settimeout",
                                        IF protocol = TCP THEN "recv" ELSE "recvfrom"},
                                  IF ~tried THEN "none"
                                  ELSE IF ev = "error" THEN "error"
                                  ELSE IF ~some /\ ~eof THEN "timeout"
                                  ELSE IF r.data = <<>> THEN "eof" ELSE "ok",
                                  r.data, r.addr)
    /\ UNCHANGED <<binding, protocol, is_connected, socket, server_socket,
                   client_socket, serial_port, orphans>>

------------------------------------------------------------------------------
(* SerialTeleopInterface *)

\* self.timeout: the read timeout given at construction (the default)
ConfiguredTimeout == 1

\* self.serial_port: no object yet, or the serial.Serial object's state
NoSerial == [exists |-> FALSE, is_open |-> FALSE, timeout |-> 0]

SerialTeleopInterface_connect_except == <<"SerialException", "Exception">>
SerialTeleopInterface_disconnect_except == <<"Exception">>
SerialTeleopInterface_send_except == <<"Exception">>
SerialTeleopInterface_receive_except == <<"JSONDecodeError", "Exception">>
SerialTeleopInterface_send_raw_except == <<"Exception">>
SerialTeleopInterface_receive_raw_except == <<"Exception">>
SerialTeleopInterface_clear_buffers_except == <<>>
SerialTeleopInterface_list_ports_except == <<"Exception">>

\* `if not self.is_connected or not self.serial_port or not
\* self.serial_port.is_open`, the guard of the four transfer methods
SerialTeleopInterface_refused ==
    ~is_connected \/ ~serial_port.exists \/ ~serial_port.is_open

\* raw bytes: the first n of 01 02 01 02 ...
RawPattern(n) == [i \in 1..n |-> IF i % 2 = 1 THEN "x01" ELSE "x02"]

\* the byte strings a caller passes to send_raw_bytes
RawInputs == {RawPattern(n) : n \in 0..MaxRawSize}

\* readline() that reads up to the last "\n" that has arrived
LineLen_LastNewline(bytes) ==
    IF \E i \in 1..Len(bytes) : bytes[i] = "LF"
    THEN CHOOSE i \in 1..Len(bytes) :
           bytes[i] = "LF" /\ \A j \in (i + 1)..Len(bytes) : bytes[j] # "LF"
    ELSE Len(bytes)

\* how many bytes readline() returns: up to and including the first "\n",
\* or all that arrived before the timeout when there is none
LineLen(bytes) ==
    IF \E i \in 1..Len(bytes) : bytes[i] = "LF"
    THEN CHOOSE i \in 1..Len(bytes) :
           bytes[i] = "LF" /\ \A j \in 1..(i - 1) : bytes[j] # "LF"
    ELSE Len(bytes)

\* readline() that returns all the bytes that have arrived
readline_All(rx) == Take(rx, Len(Flatten(rx)))

\* serial_port.readline() on the input buffer rx
readline(rx) == Take(rx, LineLen(Flatten(rx)))

\* serial_port.read(size) on the input buffer rx: size bytes, fewer when the
\* timeout elapses first
read(rx, size) ==
    Take(rx, IF Len(Flatten(rx)) < size THEN Len(Flatten(rx)) ELSE size)

\* connect() that opens the port and resets nothing
reset_input_buffer_Skipped(rx) == rx

\* serial_port.reset_input_buffer(): the input buffer afterwards
reset_input_buffer(rx) == <<>>

\* connect(): opened is the outcome of serial.Serial(...); reset tells
\* whether reset_input_buffer() and reset_output_buffer() went through or
\* which of them raised; finalized: the runtime closes the Serial object
\* whose last reference the assignment drops.  data: the bytes discarded
SerialTeleopInterface_connect ==
    /\ Ready("SerialTeleopInterface")
    /\ \E opened \in BOOLEAN, reset \in {"ok", "input", "output"},
          finalized \in BOOLEAN :
         \* without a new Serial object nothing is reset or dropped
         /\ opened \/ (reset = "ok" /\ finalized)
         /\ LET exc == IF ~opened THEN "SerialException"
                       ELSE IF reset # "ok" THEN "SerialException"
                       ELSE NoExc
                clauses == SerialTeleopInterface_connect_except
                dropped == IF opened /\ serial_port.exists /\ serial_port.is_open
                              /\ ~finalized
                           THEN 1 ELSE 0
                clears == opened /\ reset # "input"
            IN  /\ serial_port' = IF opened
                                  THEN [exists |-> TRUE, is_open |-> TRUE,
                                        timeout |-> ConfiguredTimeout]
                                  ELSE serial_port
                /\ net' = IF clears THEN [net EXCEPT !.rx = reset_input_buffer(@)]
                          ELSE net
                /\ orphans' = Orphaned(dropped)
                /\ is_connected' = IF exc = NoExc THEN TRUE
                                   ELSE IF Catches(clauses, exc) THEN FALSE
                                   ELSE is_connected
                /\ Return("connect", RetOf(exc, clauses, "True", "False"), NoVal,
                          RaisedOf(exc, clauses),
                          IF opened THEN {"reset_input_buffer"} ELSE {},
                          IF exc = NoExc THEN "ok" ELSE "error",
                          IF clears THEN Flatten(net.rx) ELSE <<>>)
    /\ UNCHANGED <<binding, protocol, socket, server_socket, client_socket,
                   client_address>>

\* disconnect(): closed is the outcome of serial_port.close()
SerialTeleopInterface_disconnect ==
    /\ Ready("SerialTeleopInterface")
    /\ \E closed \in BOOLEAN :
         LET closing == serial_port.exists /\ serial_port.is_open
             exc == IF closing /\ ~closed THEN "SerialException" ELSE NoExc
             clauses == SerialTeleopInterface_disconnect_except
         IN  /\ serial_port' = IF closing /\ closed
                               THEN [serial_port EXCEPT !.is_open = FALSE]
                               ELSE serial_port
             /\ is_connected' = IF exc = NoExc THEN FALSE ELSE is_connected
             /\ Return("disconnect", RetOf(exc, clauses, "True", "False"), NoVal,
                       RaisedOf(exc, clauses),
                       IF closing THEN {"close"} ELSE {}, "none", <<>>)
    /\ UNCHANGED <<net, binding, protocol, socket, server_socket, client_socket,
                   client_address, orphans>>

\* send_command(command): written / flushed are the outcomes of write(), flush()
SerialTeleopInterface_send_command ==
    /\ Ready("SerialTeleopInterface")
    /\ IF SerialTeleopInterface_refused
       THEN Return("send_command", "False", NoVal, NoExc, {}, "none", <<>>)
       ELSE \E command \in CommandInputs, written \in BOOLEAN, flushed \in BOOLEAN :
            \* flush() is not reached when write() raised
            /\ written \/ flushed
            /\ LET enc == json_dumps(command)
                   exc == IF enc.exc # NoExc THEN enc.exc
                          ELSE IF ~written \/ ~flushed THEN "SerialException"
                          ELSE NoExc
                   clauses == SerialTeleopInterface_send_except
               IN  Return("send_command", RetOf(exc, clauses, "True", "False"),
                          NoVal, RaisedOf(exc, clauses),
                          IF enc.exc # NoExc THEN {}
                          ELSE IF written THEN {"write", "flush"} ELSE {"write"},
                          IF enc.exc # NoExc THEN "none"
                          ELSE IF written THEN "ok" ELSE "error",
                          IF enc.exc = NoExc /\ written
                          THEN enc.data \o <<"LF">> ELSE <<>>)
    /\ UNCHANGED <<net, binding, protocol, is_connected, socket, server_socket,
                   client_socket, client_address, serial_port, orphans>>

\* receive_data(timeout): ev tells whether readline() goes through or
\* raises; the port's timeout is put back after readline() returned
SerialTeleopInterface_receive_data ==
    /\ Ready("SerialTeleopInterface")
    /\ IF SerialTeleopInterface_refused
       THEN /\ Return("receive_data", "None", NoVal, NoExc, {}, "none", <<>>)
            /\ UNCHANGED <<serial_port, net>>
       ELSE \E timeout \in CallTimeouts, ev \in {"io", "error"} :
            LET original_timeout == serial_port.timeout
            IN  \E r \in {IF ev = "io" THEN readline(net.rx) ELSE Take(net.rx, 0)} :
                \E dec \in {json_loads(strip(r.data))} :
                LET exc == IF ev = "error" THEN "SerialException"
                           ELSE IF r.data = <<>> THEN NoExc
                           ELSE dec.exc
                    clauses == SerialTeleopInterface_receive_except
                    normal == IF r.data = <<>> THEN "None" ELSE "Value"
                IN  /\ serial_port' =
                          [serial_port EXCEPT !.timeout =
                              IF ev = "error" THEN timeout ELSE original_timeout]
                    /\ net' = [net EXCEPT !.rx = r.rest]
                    /\ Return("receive_data", RetOf(exc, clauses, normal, "None"),
                              IF exc = NoExc /\ r.data # <<>> THEN <<dec.value>>
                              ELSE NoVal,
                              RaisedOf(exc, clauses), {"readline"},
                              IF ev = "error" THEN "error"
                              ELSE IF r.data = <<>> THEN "timeout" ELSE "ok",
                              r.data)
    /\ UNCHANGED <<binding, protocol, is_connected, socket, server_socket,
                   client_socket, client_address, orphans>>

\* send_raw_bytes(data)
SerialTeleopInterface_send_raw_bytes ==
    /\ Ready("SerialTeleopInterface")
    /\ IF SerialTeleopInterface_refused
       THEN Return("send_raw_bytes", "False", NoVal, NoExc, {}, "none", <<>>)
       ELSE \E data \in RawInputs, written \in BOOLEAN, flushed \in BOOLEAN :
            \* flush() is not reached when write() raised
            /\ written \/ flushed
            /\ LET exc == IF ~written \/ ~flushed THEN "SerialException" ELSE NoExc
                   clauses == SerialTeleopInterface_send_raw_except
               IN  Return("send_raw_bytes", RetOf(exc, clauses, "True", "False"),
                          NoVal, RaisedOf(exc, clauses),
                          IF written THEN {"write", "flush"} ELSE {"write"},
                          IF written THEN "ok" ELSE "error",
                          IF written THEN data ELSE <<>>)
    /\ UNCHANGED <<net, binding, protocol, is_connected, socket, server_socket,
                   client_socket, client_address, serial_port, orphans>>

\* receive_raw_bytes(size, timeout): ev tells whether read(size) goes
\* through or raises; whatever read(size) returns is returned when it is
\* not empty
SerialTeleopInterface_receive_raw_bytes ==
    /\ Ready("SerialTeleopInterface")
    /\ \E size \in 1..MaxRawSize :
         IF SerialTeleopInterface_refused
         THEN /\ ReturnSize("receive_raw_bytes", "None", NoVal, NoExc, {}, "none",
                            <<>>, size)
              /\ UNCHANGED <<serial_port, net>>
         ELSE \E timeout \in CallTimeouts, ev \in {"io", "error"} :
              LET original_timeout == serial_port.timeout
              IN  \E r \in {IF ev = "io" THEN read(net.rx, size) ELSE Take(net.rx, 0)} :
                  LET exc == IF ev = "error" THEN "SerialException" ELSE NoExc
                      clauses == SerialTeleopInterface_receive_raw_except
                      normal == IF r.data = <<>> THEN "None" ELSE "Value"
                  IN  /\ serial_port' =
                            [serial_port EXCEPT !.timeout =
                                IF ev = "error" THEN timeout ELSE original_timeout]
                      /\ net' = [net EXCEPT !.rx = r.rest]
                      /\ ReturnSize("receive_raw_bytes",
                                    RetOf(exc, clauses, normal, "None"),
                                    IF exc = NoExc THEN r.data ELSE NoVal,
                                    RaisedOf(exc, clauses), {"read"},
                                    IF ev = "error" THEN "error"
                                    ELSE IF r.data = <<>> THEN "timeout" ELSE "ok",
                                    r.data, size)
    /\ UNCHANGED <<binding, protocol, is_connected, socket, server_socket,
                   client_socket, client_address, orphans>>

\* clear_buffers(): reset as in connect(); the method has no try block
SerialTeleopInterface_clear_buffers ==
    /\ Ready("SerialTeleopInterface")
    /\ \E reset \in {"ok", "input", "output"} :
         LET clearing == serial_port.exists /\ serial_port.is_open
             exc == IF clearing /\ reset # "ok" THEN "SerialException" ELSE NoExc
             clauses == SerialTeleopInterface_clear_buffers_except
         IN  /\ net' = IF clearing /\ reset # "input"
                       THEN [net EXCEPT !.rx = reset_input_buffer(@)] ELSE net
             /\ Return("clear_buffers", RetOf(exc, clauses, "None", "None"), NoVal,
                       RaisedOf(exc, clauses),
                       IF clearing THEN {"reset_input_buffer"} ELSE {},
                       "none", <<>>)
    /\ UNCHANGED <<binding, protocol, is_connected, socket, server_socket,
                   client_socket, client_address, serial_port, orphans>>

\* names bound at module level in serial_teleop.py
SerialModuleNames ==
    {"serial", "json", "time", "Optional", "Dict", "Any", "List",
     "TeleopInterface", "SerialTeleopInterface"}

\* the serial ports comports() may enumerate
PortLists == {<<>>, <<[device |-> "/dev/ttyUSB0"], [device |-> "/dev/ttyS0"]>>}

\* list_available_ports(): enumerated is the outcome of the import and of
\* comports(); the except clause logs through the name `logging`
SerialTeleopInterface_list_available_ports ==
    /\ Ready("SerialTeleopInterface")
    /\ \E enumerated \in BOOLEAN, found \in PortLists :
         LET exc == IF enumerated THEN NoExc ELSE "OSError"
             clauses == SerialTeleopInterface_list_ports_except
             handler_exc == IF "logging" \in SerialModuleNames
                            THEN NoExc ELSE "NameError"
             ports == [i \in 1..Len(found) |-> found[i].device]
         IN  IF exc = NoExc
             THEN Return("list_available_ports", "Value", ports, NoExc, {},
                         "ok", found)
             ELSE IF Catches(clauses, exc) /\ handler_exc = NoExc
             THEN Return("list_available_ports", "Value", <<>>, NoExc, {},
                         "error", <<>>)
             ELSE Return("list_available_ports", "NoReturn", NoVal,
                         IF Catches(clauses, exc) THEN handler_exc ELSE exc, {},
                         "error", <<>>)
    /\ UNCHANGED <<net, binding, protocol, is_connected, socket, server_socket,
                   client_socket, client_address, serial_port, orphans>>

------------------------------------------------------------------------------
(* TeleopInterface.check_connection, inherited by every binding *)

TeleopInterface_check_connection ==
    /\ binding # None /\ ~Blocked
    /\ Return("check_connection", IF check_connection THEN "True" ELSE "False",
              NoVal, NoExc, {}, "none", <<>>)
    /\ UNCHANGED <<net, binding, protocol, is_connected, socket, server_socket,
                   client_socket, client_address, serial_port, orphans>>

------------------------------------------------------------------------------
(* The peer: the program at the other end of the transport *)

\* the handle the peer's bytes arrive at exists: the client's socket, the
\* accepted connection of a TCP server, the bound socket of a UDP server,
\* the serial device
Link ==
    CASE binding = "SocketTeleopInterface" -> socket # None
      [] binding = "SocketTeleopServer" ->
           IF protocol = TCP THEN client_socket # None ELSE server_socket # None
      [] binding = "SerialTeleopInterface" -> TRUE
      [] OTHER -> FALSE

\* the addresses a write of the peer may come from: one per connection or
\* line, any for datagrams to a server
Sources ==
    IF binding = "SocketTeleopServer" /\ protocol = UDP THEN Addrs
    ELSE IF binding = "SocketTeleopServer" THEN {client_address}
    ELSE {"peer"}

\* every write in rx is a whole command of the peer
Aligned(rx) == \A i \in 1..Len(rx) : rx[i].msg # <<>>

\* the bytes one send_command(m) of the peer puts on the transport
Wire(m) ==
    IF binding = "SerialTeleopInterface"
    THEN json_dumps(m).data \o <<"LF">> ELSE json_dumps(m).data

\* the peer calls send_command(m), with nothing but commands under way
Peer_send_command ==
    /\ Link /\ Len(net.rx) < MaxInFlight /\ Aligned(net.rx)
    /\ \E m \in Commands, addr \in Sources :
         net' = [net EXCEPT !.rx = Append(@, Chunk(Wire(m), <<m>>, addr))]
    /\ UNCHANGED <<binding, protocol, is_connected, socket, server_socket,
                   client_socket, client_address, serial_port, orphans, call, prev>>

\* bytes that are no command: what send_raw_bytes of a serial peer writes, a
\* truncated or undecodable document, an empty datagram
PeerBytes ==
    Garbage
    \cup (IF binding = "SerialTeleopInterface"
          THEN {RawPattern(n) : n \in 1..MaxRawSize} \cup {<<"LF">>} ELSE {})
    \cup (IF binding # "SerialTeleopInterface" /\ protocol = UDP THEN {<<>>} ELSE {})

\* the peer writes bytes that no send_command produced, with nothing else
\* under way
Peer_send_raw_bytes ==
    /\ Link /\ net.rx = <<>>
    /\ \E data \in PeerBytes, addr \in Sources :
         net' = [net EXCEPT !.rx = Append(@, Chunk(data, <<>>, addr))]
    /\ UNCHANGED <<binding, protocol, is_connected, socket, server_socket,
                   client_socket, client_address, serial_port, orphans, call, prev>>

\* a client connects to the listening socket of a TCP server
Peer_connect ==
    /\ binding = "SocketTeleopServer" /\ protocol = TCP
    /\ server_socket # None /\ net.backlog = None
    /\ \E addr \in Addrs : net' = [net EXCEPT !.backlog = addr]
    /\ UNCHANGED <<binding, protocol, is_connected, socket, server_socket,
                   client_socket, client_address, serial_port, orphans, call, prev>>

------------------------------------------------------------------------------
(* Construction *)

\* protocol arguments a caller may pass
ProtocolArgs ==
    {<<"T", "C", "P">>, <<"t", "c", "p">>, <<"U", "d", "p">>, <<"u", "D", "P">>,
     <<"F", "O", "O">>, <<"t", "c">>, <<>>}

\* str.upper() on one character, and on a string
UpperChar(c) ==
    CASE c = "t" -> "T" [] c = "c" -> "C" [] c = "p" -> "P"
      [] c = "u" -> "U" [] c = "d" -> "D" [] c = "f" -> "F" [] c = "o" -> "O"
      [] OTHER -> c

\* a constructor that stores the protocol argument as given
str_upper_Unchanged(s) == s

str_upper(s) == [i \in 1..Len(s) |-> UpperChar(s[i])]

\* TeleopInterface.__init__ and the fields each binding's __init__ sets
TeleopInterface_init ==
    /\ is_connected' = FALSE
    /\ socket' = None
    /\ server_socket' = None
    /\ client_socket' = None
    /\ client_address' = None
    /\ serial_port' = NoSerial
    /\ UNCHANGED <<orphans, prev, net>>

\* the record of a constructor call of class cls with protocol argument arg
Constructed(cls, arg, exc) ==
    call' = [op |-> "__init__", pre |-> FALSE,
             ret |-> IF exc = NoExc THEN "None" ELSE "NoReturn",
             val |-> <<cls>>, raised |-> exc, calls |-> {}, io |-> "none",
             data |-> arg, addr |-> None, size |-> 0]

\* SocketTeleopInterface(protocol=arg): no instance exists when it raises
SocketTeleopInterface_init ==
    /\ binding = None
    /\ \E arg \in ProtocolArgs :
         LET p == str_upper(arg)
             exc == IF p \notin {TCP, UDP} THEN "ValueError" ELSE NoExc
         IN  /\ binding' = IF exc = NoExc THEN "SocketTeleopInterface" ELSE None
             /\ protocol' = IF exc = NoExc THEN p ELSE NoProtocol
             /\ Constructed("SocketTeleopInterface", arg, exc)
    /\ TeleopInterface_init

\* SocketTeleopServer(protocol=arg)
SocketTeleopServer_init ==
    /\ binding = None
    /\ \E arg \in ProtocolArgs :
         LET p == str_upper(arg)
             exc == IF p \notin {TCP, UDP} THEN "ValueError" ELSE NoExc
         IN  /\ binding' = IF exc = NoExc THEN "SocketTeleopServer" ELSE None
             /\ protocol' = IF exc = NoExc THEN p ELSE NoProtocol
             /\ Constructed("SocketTeleopServer", arg, exc)
    /\ TeleopInterface_init

\* SerialTeleopInterface(): takes no protocol and validates nothing
SerialTeleopInterface_init ==
    /\ binding = None
    /\ binding' = "SerialTeleopInterface"
    /\ protocol' = NoProtocol
    /\ Constructed("SerialTeleopInterface", <<>>, NoExc)
    /\ TeleopInterface_init

------------------------------------------------------------------------------
(* The program: one instance is constructed, then called *)

\* rx: nothing written by the peer; heard: no datagram received since the
\* last connect; src: the source of the datagram received last; backlog: the
\* address of the client waiting at the listening socket
NoTraffic == [rx |-> <<>>, heard |-> FALSE, src |-> None, backlog |-> None]

Init ==
    /\ binding = None
    /\ protocol = NoProtocol
    /\ is_connected = FALSE
    /\ socket = None
    /\ server_socket = None
    /\ client_socket = None
    /\ client_address = None
    /\ serial_port = NoSerial
    /\ orphans = 0
    /\ call = [op |-> "none", pre |-> FALSE, ret |-> "None", val |-> NoVal,
               raised |-> NoExc, calls |-> {}, io |-> "none", data |-> <<>>,
               addr |-> None, size |-> 0]
    /\ prev = NoPrev
    /\ net = NoTraffic

Next ==
    \/ SocketTeleopInterface_init
    \/ SocketTeleopServer_init
    \/ SerialTeleopInterface_init
    \/ SocketTeleopInterface_connect
    \/ SocketTeleopInterface_disconnect
    \/ SocketTeleopInterface_send_command
    \/ SocketTeleopInterface_receive_data
    \/ SocketTeleopServer_connect
    \/ SocketTeleopServer_connect_accept
    \/ SocketTeleopServer_disconnect
    \/ SocketTeleopServer_send_command
    \/ SocketTeleopServer_receive_data
    \/ SerialTeleopInterface_connect
    \/ SerialTeleopInterface_disconnect
    \/ SerialTeleopInterface_send_command
    \/ SerialTeleopInterface_receive_data
    \/ SerialTeleopInterface_send_raw_bytes
    \/ SerialTeleopInterface_receive_raw_bytes
    \/ SerialTeleopInterface_clear_buffers
    \/ SerialTeleopInterface_list_available_ports
    \/ TeleopInterface_check_connection
    \/ Peer_send_command
    \/ Peer_send_raw_bytes
    \/ Peer_connect

Spec == Init /\ [][Next]_vars

------------------------------------------------------------------------------
(* Properties *)

\* the fields of the instance and the handles it has left open
Fields == <<is_connected, socket, server_socket, client_socket, client_address,
            serial_port, orphans>>

\* a step of the peer: one more write on the transport, or a client at the
\* listening socket
PeerStep ==
    \/ Len(net'.rx) > Len(net.rx)
    \/ net.backlog = None /\ net'.backlog # None

\* a step in which a public method is called or returns
PublicCall == ~PeerStep

SendOps == {"send_command", "send_raw_bytes"}
ReceiveOps == {"receive_data", "receive_raw_bytes"}

\* C1: a send or receive entered with the connected flag false returns its
\* sentinel (False / None) and invokes no method of the socket or serial
\* object: nothing is written to or read from the transport.
C1_DisconnectedTransfersRefused ==
    call.op \in SendOps \cup ReceiveOps /\ ~call.pre =>
        /\ call.ret = IF call.op \in SendOps THEN "False" ELSE "None"
        /\ call.raised = NoExc
        /\ call.calls = {}
        /\ call.io = "none"
        /\ Len(call.val) = 0

\* a receive refused although the client still holds a socket (left by a
\* connect that failed)
C1_Witness ==
    /\ Ready("SocketTeleopInterface")
    /\ call.op = "receive_data" /\ ~call.pre /\ socket # None
    /\ call.ret = "None"

\* C2 (as claimed): check_connection() is false on a fresh instance and after
\* every disconnect call, true after a connect that returned true, and the
\* flag rises only in a connect call that returns true.
C2_CheckConnectionFollowsCalls ==
    /\ call.op = "__init__" => ~check_connection
    /\ call.op = "disconnect" => ~check_connection
    /\ call.op = "connect" /\ call.ret = "True" => check_connection
    /\ ~call.pre /\ is_connected => call.op = "connect" /\ call.ret = "True"
    /\ call.op = "check_connection" => is_connected = call.pre

\* C3 (as claimed): of two consecutive disconnect calls both return true,
\* neither raises, and the second changes no field and closes nothing.
C3_DisconnectTwiceAlwaysTrue ==
    [][PublicCall /\ call.op = "disconnect" /\ call'.op = "disconnect" =>
          /\ call.ret = "True" /\ call'.ret = "True"
          /\ call.raised = NoExc /\ call'.raised = NoExc
          /\ Fields' = Fields
          /\ "close" \notin call'.calls]_vars

\* C3 (amended): no disconnect call raises, and a disconnect call that
\* directly follows a disconnect call that returned true returns true, changes
\* no field and closes nothing.
C3_DisconnectIdempotent ==
    [][PublicCall /\ call'.op = "disconnect" =>
          /\ call'.raised = NoExc
          /\ (call.op = "disconnect" /\ call.ret = "True" =>
                 /\ call'.ret = "True"
                 /\ Fields' = Fields
                 /\ "close" \notin call'.calls)]_vars

\* a second disconnect after a first one that closed a handle and returned true
C3_Witness ==
    /\ call.op = "disconnect" /\ call.ret = "True" /\ call.calls = {}
    /\ prev.op = "disconnect" /\ prev.ret = "True" /\ "close" \in prev.calls

\* C4 (as claimed): after every disconnect call the connected flag is false,
\* whatever the call returned.
C4_DisconnectClearsFlag ==
    call.op = "disconnect" => ~is_connected

\* C5: a connect whose acquisition fails returns False, raises nothing and
\* leaves the connected flag false, also when the flag was true on entry.
C5_FailedConnectDisconnected ==
    call.op = "connect" /\ call.io = "error" =>
        /\ call.ret = "False"
        /\ call.raised = NoExc
        /\ ~is_connected

\* a connect that failed on an instance that was connected
C5_Witness ==
    /\ call.op = "connect" /\ call.io = "error" /\ call.pre
    /\ ~is_connected

\* C6 (as claimed): no handle the instance opened remains open without the
\* instance referencing it.
C6_NoUnreferencedOpenHandle ==
    orphans = 0

\* C7 (as claimed): on the TCP client and server, after a receive_data that
\* read zero bytes or a send_command / receive_data whose socket call failed
\* with a non-timeout error, check_connection() is false.
C7_IoFailureClearsFlag ==
    /\ binding \in {"SocketTeleopInterface", "SocketTeleopServer"}
    /\ protocol = TCP
    /\ \/ call.op = "receive_data" /\ call.io \in {"eof", "error"}
       \/ call.op = "send_command" /\ call.io = "error"
    => ~check_connection

\* the bytes a receive_data obtained are no UTF-8 JSON document
Malformed(data) == json_loads(data).exc # NoExc

\* C8: a receive_data on a connected instance that times out, reads zero
\* bytes or obtains bytes that are no UTF-8 JSON document returns None,
\* with no value and no exception, alike in the three cases.
C8_ReceiveAbsent ==
    /\ call.op = "receive_data" /\ call.pre
    /\ \/ call.io \in {"timeout", "eof"}
       \/ call.io = "ok" /\ Malformed(call.data)
    => /\ call.ret = "None"
       /\ call.raised = NoExc
       /\ Len(call.val) = 0

\* a connected client whose receive_data obtained a truncated document
C8_Witness ==
    /\ Ready("SocketTeleopInterface")
    /\ call.op = "receive_data" /\ call.pre
    /\ call.io = "ok" /\ json_loads(call.data).exc = "JSONDecodeError"
    /\ call.ret = "None"

RuntimeOps ==
    {"connect", "disconnect", "send_command", "receive_data", "check_connection",
     "send_raw_bytes", "receive_raw_bytes", "clear_buffers"}

\* C9 (as claimed): no public runtime operation lets an exception escape.
C9_NoExceptionEscapes ==
    call.op \in RuntimeOps => call.raised = NoExc /\ call.ret # "NoReturn"

\* C10 (as claimed): list_available_ports never raises; it returns the empty
\* list when the enumeration fails and the device names when it succeeds.
C10_ListPortsNeverFails ==
    call.op = "list_available_ports" =>
        /\ call.raised = NoExc
        /\ call.ret = "Value"
        /\ call.io = "error" => Len(call.val) = 0
        /\ call.io = "ok" =>
              call.val = [i \in 1..Len(call.data) |-> call.data[i].device]

SocketClasses == {"SocketTeleopInterface", "SocketTeleopServer"}

\* a letter without its case
Fold(c) ==
    CASE c \in {"T", "t"} -> "t" [] c \in {"C", "c"} -> "c" [] c \in {"P", "p"} -> "p"
      [] c \in {"U", "u"} -> "u" [] c \in {"D", "d"} -> "d" [] c \in {"F", "f"} -> "f"
      [] c \in {"O", "o"} -> "o" [] OTHER -> c

\* the strings a and b are equal when case is ignored
SameIgnoringCase(a, b) ==
    Len(a) = Len(b) /\ \A i \in 1..Len(a) : Fold(a[i]) = Fold(b[i])

\* C11: constructing a socket client or server succeeds exactly when the
\* protocol argument, case ignored, is TCP or UDP, and the instance then
\* holds that protocol in upper case; for any other argument ValueError is
\* raised, no instance exists, no socket was created and nothing was called.
C11_ConstructorValidatesProtocol ==
    call.op = "__init__" /\ call.val[1] \in SocketClasses =>
        LET known == \E name \in {TCP, UDP} : SameIgnoringCase(call.data, name)
        IN  /\ call.raised = NoExc <=> known
            /\ known => /\ binding = call.val[1]
                        /\ protocol \in {TCP, UDP}
                        /\ SameIgnoringCase(call.data, protocol)
            /\ ~known => /\ call.raised = "ValueError"
                         /\ binding = None
                         /\ socket = None /\ server_socket = None
                         /\ client_socket = None
                         /\ orphans = 0
                         /\ call.calls = {} /\ call.io = "none"

\* a server constructed with the protocol written "Udp"
C11_Witness ==
    /\ call.op = "__init__" /\ call.val = <<"SocketTeleopServer">>
    /\ call.data = <<"U", "d", "p">>
    /\ binding = "SocketTeleopServer" /\ protocol = UDP

\* how many writes of the peer a step reads to the end
Consumed == Len(net.rx) - Len(net'.rx)

UdpServer == binding = "SocketTeleopServer" /\ protocol = UDP

\* C13 (as claimed): on the UDP server a send_command issued after a connect
\* and before a receive_data has received a datagram since that connect
\* returns False and sends nothing.
C13_NoPeerBeforeFirstDatagram ==
    UdpServer /\ call.op = "send_command" /\ call.pre /\ ~net.heard =>
        /\ call.ret = "False"
        /\ call.calls = {}
        /\ call.data = <<>>

\* the call of the step is a receive_data that obtained a datagram
ReceivedDatagram == call'.op = "receive_data" /\ call'.io \in {"ok", "eof"}

\* C14: on the UDP server a receive_data that obtains a datagram sets the
\* peer address to the source of that datagram; no other call changes it (a
\* receive_data that times out or fails, send_command, connect, disconnect);
\* a send_command that sends passes sendto the source of the datagram
\* received last.
C14_PeerAddressFollowsReceive ==
    [][UdpServer /\ PublicCall =>
          /\ ReceivedDatagram =>
                /\ client_address' = Head(net.rx).addr
                /\ call'.addr = Head(net.rx).addr
          /\ ~ReceivedDatagram => client_address' = client_address
          /\ call'.op = "send_command" /\ call'.io = "ok" =>
                call'.addr = net.src /\ net.src # None]_vars

\* a send to the sender heard last while a datagram of another sender waits
C14_Witness ==
    /\ UdpServer /\ call.op = "send_command" /\ call.io = "ok"
    /\ call.addr = "addrB" /\ net.src = "addrB"
    /\ net.rx # <<>> /\ Head(net.rx).addr = "addrA"

\* C15 (as claimed): on the serial binding, when receive_data or
\* receive_raw_bytes has returned, also after a read that failed, the read
\* timeout of the port is the one configured at construction.
C15_TimeoutRestored ==
    /\ binding = "SerialTeleopInterface"
    /\ call.op \in ReceiveOps /\ serial_port.exists
    => serial_port.timeout = ConfiguredTimeout

\* C16 (as claimed): on the serial binding receive_raw_bytes(size, timeout)
\* returns size bytes or nothing, never a shorter non-empty result.
C16_RawReadExactSize ==
    /\ binding = "SerialTeleopInterface"
    /\ call.op = "receive_raw_bytes" /\ call.pre
    => \/ call.ret = "Value" /\ Len(call.val) = call.size
       \/ call.ret = "None" /\ Len(call.val) = 0

UdpClient == binding = "SocketTeleopInterface" /\ protocol = UDP

\* C17: on the UDP client connect calls no connect() on the socket and
\* returns True whenever the socket was created; a send_command whose sendto
\* went through returns True, whether or not anything listens; a receive_data
\* on the connected instance to which nothing arrives returns (the socket
\* has a timeout), returns None, raises nothing and leaves the flag true.
C17_UdpClientWithoutPeer ==
    UdpClient =>
        /\ call.op = "connect" =>
              /\ "connect" \notin call.calls
              /\ call.ret = "True" <=> call.io = "ok"
        /\ call.op = "send_command" /\ call.io = "ok" => call.ret = "True"
        /\ call.op = "receive_data" /\ call.pre /\ call.io = "timeout" =>
              /\ ~Blocked
              /\ call.ret = "None" /\ call.raised = NoExc
              /\ is_connected

\* a connected UDP client whose receive_data got nothing
C17_Witness ==
    /\ UdpClient /\ call.op = "receive_data" /\ call.pre /\ call.io = "timeout"
    /\ call.ret = "None" /\ is_connected /\ net.rx = <<>>

\* the bytes are one line: a JSON document followed by the only "\n"
OneJsonLine(data) ==
    /\ data # <<>> /\ data[Len(data)] = "LF"
    /\ \A i \in 1..(Len(data) - 1) : data[i] # "LF"
    /\ json_loads(strip(data)).exc = NoExc

\* C18: on the serial binding a send_command that writes, writes one line;
\* with nothing but lines of send_command in the input buffer, a receive_data
\* whose read does not fail returns the command of the oldest line and
\* removes that line and no more, and returns None when the buffer is empty;
\* so k lines are returned by k calls in the order sent, each once.
C18_SerialOneLinePerMessage ==
    [][binding = "SerialTeleopInterface" /\ PublicCall =>
          /\ call'.op = "send_command" /\ call'.io = "ok" => OneJsonLine(call'.data)
          /\ /\ call'.op = "receive_data" /\ call'.io \in {"ok", "timeout"}
             /\ Aligned(net.rx)
             => IF net.rx = <<>>
                THEN call'.ret = "None" /\ net'.rx = <<>>
                ELSE /\ call'.ret = "Value" /\ call'.val = Head(net.rx).msg
                     /\ net'.rx = Tail(net.rx)]_vars

\* the first of two lines was returned and the second is still to be read
C18_Witness ==
    /\ binding = "SerialTeleopInterface"
    /\ call.op = "receive_data" /\ call.ret = "Value" /\ call.val = << <<>> >>
    /\ Len(net.rx) = 1 /\ net.rx[1].msg = <<[k \in Keys |-> JInt(1)]>>

TcpServer == binding = "SocketTeleopServer" /\ protocol = TCP

\* C19: on the TCP server a connect that has bound and listened waits in
\* accept(); while it waits the connected flag keeps its value; the call
\* returns only when a client has connected or accept() fails; it returns
\* True, and the flag rises, only with the client accept() returned.
C19_ConnectWaitsForClient ==
    [][TcpServer /\ PublicCall /\ call'.op = "connect" =>
          /\ ~Blocked /\ "accept" \in call'.calls => Blocked'
          /\ Blocked' => is_connected' = is_connected
          /\ Blocked /\ ~Blocked' => net.backlog # None \/ call'.io = "error"
          /\ call'.ret = "True" =>
                /\ Blocked /\ net.backlog # None
                /\ call'.addr = net.backlog /\ client_socket' # None
                /\ {"bind", "listen", "accept"} \subseteq call'.calls
          /\ is_connected' /\ ~is_connected => call'.ret = "True"]_vars

\* connect returned True with the client that connected while it waited
C19_Witness ==
    /\ TcpServer /\ call.op = "connect" /\ call.ret = "True" /\ ~call.pre
    /\ call.addr = "addrB" /\ client_address = "addrB" /\ is_connected

\* C20: on the serial binding a connect that returns True leaves the input
\* buffer empty: the bytes that were pending are discarded, so no later
\* read returns them.
C20_ConnectDiscardsPending ==
    [][/\ binding = "SerialTeleopInterface" /\ PublicCall
       /\ call'.op = "connect" /\ call'.ret = "True"
       => net'.rx = <<>> /\ call'.data = Flatten(net.rx)]_vars

\* a connect that returned True and discarded bytes of the peer
C20_Witness ==
    /\ binding = "SerialTeleopInterface"
    /\ call.op = "connect" /\ call.ret = "True" /\ call.data # <<>>
    /\ is_connected

\* C21: in every state between public calls a true connected flag implies
\* that the instance holds its handle: the client its socket, the server its
\* listening socket and, on TCP, its accepted client socket, the serial
\* binding its serial handle.
C21_ConnectedHoldsHandle ==
    is_connected /\ ~Blocked =>
        /\ binding = "SocketTeleopInterface" => socket # None
        /\ binding = "SocketTeleopServer" =>
              /\ server_socket # None
              /\ protocol = TCP => client_socket # None
        /\ binding = "SerialTeleopInterface" => serial_port.exists

====
